---- MODULE Spec2Model ----
(***************************************************************************)
(* String Analyzer service (src/server.js and its /api/v1 variant          *)
(* src/unnamed/part_000): the analysis function, the in-memory store, the  *)
(* five request handlers and the order in which Express tries the routes.  *)
(*                                                                         *)
(* A JavaScript string is a sequence of one-character TLA+ strings.  An    *)
(* optional value (a query parameter that may be undefined) is a sequence  *)
(* of length 0 (undefined) or 1 (the value).                               *)
(***************************************************************************)
EXTENDS Integers, Sequences, FiniteSets, TLC

VARIABLES app, store, last, batch, start

vars == <<app, store, last, batch, start>>

(***************************** bounds **************************************)

\* most records the store holds in the request-level specifications
MaxStore == 3

\* longest input string of the analyser specification
MaxLen == 3

\* most requests in flight together in the concurrency specification
MaxInflight == 2

(************************** characters *************************************)

LowerAlpha == <<"a","b","c","d","e","f","g","h","i","j","k","l","m",
                "n","o","p","q","r","s","t","u","v","w","x","y","z">>

UpperAlpha == <<"A","B","C","D","E","F","G","H","I","J","K","L","M",
                "N","O","P","Q","R","S","T","U","V","W","X","Y","Z">>

DigitChars == <<"0","1","2","3","4","5","6","7","8","9">>

Range(f) == {f[i] : i \in DOMAIN f}

Digits == Range(DigitChars)

\* the class [0-9a-z] under the i flag
Alnums == Range(DigitChars) \cup Range(LowerAlpha) \cup Range(UpperAlpha)

Spaces == {" ", "\t", "\n"}

\* the class [a-z0-9\s\-\_] under the i flag
TokenChars == Alnums \cup Spaces \cup {"-", "_"}

\* the class \d
IsDigit(c) == c \in Digits

\* the class \s, on the characters the model uses
IsSpace(c) == c \in Spaces

IsAlnum(c) == c \in Alnums

IsTokenChar(c) == c \in TokenChars

IsQuote(c) == c \in {"\"", "'"}

DigitValue(c) == CHOOSE d \in 0..9 : DigitChars[d + 1] = c

LowerOf == [c \in Range(UpperAlpha) |-> LowerAlpha[CHOOSE i \in 1..26 : UpperAlpha[i] = c]]

LowerChar(c) == IF c \in DOMAIN LowerOf THEN LowerOf[c] ELSE c

\* String.prototype.toLowerCase
toLowerCase(s) == [i \in 1..Len(s) |-> LowerChar(s[i])]

\* String.prototype.includes
includes(s, sub) ==
  \E i \in 0..(Len(s) - Len(sub)) : SubSeq(s, i + 1, i + Len(sub)) = sub

\* s.split("").reverse().join("")
reverse(s) == [i \in 1..Len(s) |-> s[Len(s) + 1 - i]]

\* String.prototype.trim
trim(s) ==
  IF \A i \in 1..Len(s) : IsSpace(s[i]) THEN <<>>
  ELSE LET lo == CHOOSE i \in 1..Len(s) :
                   ~IsSpace(s[i]) /\ \A j \in 1..(i - 1) : IsSpace(s[j])
           hi == CHOOSE i \in 1..Len(s) :
                   ~IsSpace(s[i]) /\ \A j \in (i + 1)..Len(s) : IsSpace(s[j])
       IN  SubSeq(s, lo, hi)

\* s.split(/\s+/): the pieces between the maximal runs of whitespace
RECURSIVE splitWs(_)
splitWs(s) ==
  IF \A i \in 1..Len(s) : ~IsSpace(s[i]) THEN <<s>>
  ELSE LET a == CHOOSE i \in 1..Len(s) :
                  IsSpace(s[i]) /\ \A j \in 1..(i - 1) : ~IsSpace(s[j])
           b == CHOOSE i \in a..Len(s) :
                  /\ \A j \in a..i : IsSpace(s[j])
                  /\ (i = Len(s) \/ ~IsSpace(s[i + 1]))
       IN  <<SubSeq(s, 1, a - 1)>> \o splitWs(SubSeq(s, b + 1, Len(s)))

(**************************** analyser *************************************)

sanitizeNoLower(s) == SelectSeq(s, IsAlnum)

sanitizeForPalindrome(s) == toLowerCase(SelectSeq(s, IsAlnum))

\* the digest is not computed: it is a value determined by the string alone
sha256Hex(s) == [alg |-> "sha256", of |-> s]

analyse(value) ==
  LET words   == IF Len(trim(value)) = 0 THEN <<>> ELSE splitWs(trim(value))
      cleaned == sanitizeForPalindrome(value)
      characterFrequency ==
        [c \in Range(value) |-> Cardinality({i \in 1..Len(value) : value[i] = c})]
  IN  [ string             |-> value,
        length             |-> Len(value),
        isPalindrome       |-> (Len(cleaned) > 0 /\ cleaned = reverse(cleaned)),
        wordCount          |-> Len(words),
        uniqueCharacters   |-> Cardinality(DOMAIN characterFrequency),
        characterFrequency |-> characterFrequency,
        sha256             |-> sha256Hex(value) ]

(****************************** store **************************************)

\* The Map is a sequence of entries in insertion order.

\* Map.prototype.has
has(st, k) == \E i \in 1..Len(st) : st[i].key = k

\* Map.prototype.get, of a key the map has
get(st, k) == st[CHOOSE i \in 1..Len(st) : st[i].key = k].val

\* Map.prototype.set: a present key keeps its place, a new one goes last
mapSet(st, k, v) ==
  IF has(st, k)
  THEN [i \in 1..Len(st) |-> IF st[i].key = k THEN [key |-> k, val |-> v] ELSE st[i]]
  ELSE Append(st, [key |-> k, val |-> v])

\* Map.prototype.delete
mapDelete(st, k) ==
  LET keep(e) == e.key # k IN SelectSeq(st, keep)

\* Array.from(store.values())
mapValues(st) == [i \in 1..Len(st) |-> st[i].val]

(**************************** responses ************************************)

Response(status, handler, shape, error, data) ==
  [ status  |-> status,
    handler |-> handler,
    shape   |-> shape,
    error   |-> error,
    count   |-> Len(data),
    data    |-> data ]

\* res.status(s).json({ error })
ErrorJson(status, handler, error) == Response(status, handler, "error", error, <<>>)

\* res.status(s).json(record)
RecordJson(status, handler, rec) == Response(status, handler, "record", "", <<rec>>)

\* res.status(200).json({ count: results.length, data: results })
ListJson(handler, results) == Response(200, handler, "list", "", results)

NoResponse == Response(0, "none", "none", "", <<>>)

(***************************** requests ************************************)

Absent == <<>>

Some(s) == <<s>>

NoQuery ==
  [ isPalindrome |-> Absent, minLength |-> Absent, maxLength |-> Absent,
    wordCount |-> Absent, contains |-> Absent, q |-> Absent ]

\* req.body after bodyParser.json(): kind "absent" is a body with no `value`
\* member, "other" a `value` that is not a string, "string" a string
NoBody == [kind |-> "absent", str |-> <<>>]

OtherBody == [kind |-> "other", str |-> <<>>]

StringBody(s) == [kind |-> "string", str |-> s]

(************************ numbers and patterns *****************************)

NaN == [finite |-> FALSE, n |-> 0]

Finite(n) == [finite |-> TRUE, n |-> n]

RECURSIVE DecimalValue(_)
DecimalValue(ds) ==
  IF Len(ds) = 0 THEN 0
  ELSE 10 * DecimalValue(SubSeq(ds, 1, Len(ds) - 1)) + DigitValue(ds[Len(ds)])

\* Number(s) where s is blank, an unsigned decimal integer of a few digits
\* (white space around it allowed), or a text that is no numeric literal:
\* the blank string converts to 0, the last kind to NaN
Number(s) ==
  LET t == trim(s)
  IN  IF Len(t) = 0 THEN Finite(0)
      ELSE IF \A i \in 1..Len(t) : IsDigit(t[i]) THEN Finite(DecimalValue(t))
      ELSE NaN

\* the longest run of characters of the class cls that starts at position p
RunFrom(s, p, cls) ==
  LET e == CHOOSE i \in p..Len(s) :
             /\ \A j \in p..i : s[j] \in cls
             /\ (i = Len(s) \/ s[i + 1] \notin cls)
  IN  SubSeq(s, p, e)

\* s.match(/<kw>(\d+)/): null (Absent) or the capture of the leftmost match
matchDigitsAfter(s, kw) ==
  LET at(i) == /\ SubSeq(s, i + 1, i + Len(kw)) = kw
               /\ i + Len(kw) < Len(s)
               /\ IsDigit(s[i + Len(kw) + 1])
      I == {i \in 0..(Len(s) - Len(kw)) : at(i)}
  IN  IF I = {} THEN Absent
      ELSE LET i == CHOOSE x \in I : \A y \in I : x <= y
           IN  Some(RunFrom(s, i + Len(kw) + 1, Digits))

\* s.match(/<kw>["']?([a-z0-9\s\-\_]+)["']?/i) on an already lowercased s:
\* the optional opening quote is taken when a token character follows it
matchTokenAfter(s, kw) ==
  LET p(i) == i + Len(kw) + 1
      bare(i)   == p(i) <= Len(s) /\ IsTokenChar(s[p(i)])
      quoted(i) == /\ p(i) + 1 <= Len(s)
                   /\ IsQuote(s[p(i)])
                   /\ IsTokenChar(s[p(i) + 1])
      at(i) == SubSeq(s, i + 1, i + Len(kw)) = kw /\ (bare(i) \/ quoted(i))
      I == {i \in 0..(Len(s) - Len(kw)) : at(i)}
  IN  IF I = {} THEN Absent
      ELSE LET i == CHOOSE x \in I : \A y \in I : x <= y
           IN  Some(RunFrom(s, IF quoted(i) THEN p(i) + 1 ELSE p(i), TokenChars))

K_palind == <<"p","a","l","i","n","d">>

K_single_word == <<"s","i","n","g","l","e"," ","w","o","r","d">>

K_single_dash_word == <<"s","i","n","g","l","e","-","w","o","r","d">>

K_longer_than == <<"l","o","n","g","e","r"," ","t","h","a","n"," ">>

K_shorter_than == <<"s","h","o","r","t","e","r"," ","t","h","a","n"," ">>

K_contains == <<"c","o","n","t","a","i","n","s"," ">>

K_true == <<"t","r","u","e">>

K_false == <<"f","a","l","s","e">>

(***************************** handlers ************************************)

\* A handler maps the store and its inputs to the store it leaves and the
\* response it sends; it runs without yielding (no await, no callback).

Outcome(st, resp) == [store |-> st, resp |-> resp]

\* the conflict test of Create
alreadyStored(st, value) == has(st, value)

storeKeyLower(value) == toLowerCase(value)

\* the key Create stores the record under
storeKey(value) == value

PostStringsUpsert(st, body) ==
  IF body.kind = "absent"
  THEN Outcome(st, ErrorJson(400, "PostStrings", "Missing 'value' field"))
  ELSE IF body.kind # "string"
  THEN Outcome(st, ErrorJson(422, "PostStrings", "'value' must be a string"))
  ELSE IF alreadyStored(st, body.str)
  THEN Outcome(mapSet(mapDelete(st, body.str), storeKey(body.str), analyse(body.str)),
               ErrorJson(409, "PostStrings", "String already exists"))
  ELSE Outcome(mapSet(st, storeKey(body.str), analyse(body.str)),
               RecordJson(201, "PostStrings", analyse(body.str)))

\* POST /strings, POST /api/v1/strings
PostStrings(st, body) ==
  IF body.kind = "absent"
  THEN Outcome(st, ErrorJson(400, "PostStrings", "Missing 'value' field"))
  ELSE IF body.kind # "string"
  THEN Outcome(st, ErrorJson(422, "PostStrings", "'value' must be a string"))
  ELSE IF alreadyStored(st, body.str)
  THEN Outcome(st, ErrorJson(409, "PostStrings", "String already exists"))
  ELSE LET analysis == analyse(body.str)
       IN  Outcome(mapSet(st, storeKey(body.str), analysis),
                   RecordJson(201, "PostStrings", analysis))

\* GET /strings/:value, GET /api/v1/strings/:value
GetStringByValue(st, value) ==
  IF ~has(st, value)
  THEN Outcome(st, ErrorJson(404, "GetStringByValue", "String not found"))
  ELSE Outcome(st, RecordJson(200, "GetStringByValue", get(st, value)))

keepMinLength(r, n) == r.length >= n

keepMaxLengthCopied(r, n) == r.length >= n

keepMaxLength(r, n) == r.length <= n

keepWordCount(r, n) == r.wordCount = n

keepContains(r, sub) == includes(r.string, sub)

\* GET /strings, GET /api/v1/strings
GetStrings(st, query) ==
  LET isPalindrome == query.isPalindrome
      minLength    == query.minLength
      maxLength    == query.maxLength
      wordCount    == query.wordCount
      contains     == query.contains
      r0 == mapValues(st)
      want == isPalindrome = Some(K_true)
      k1(r) == r.isPalindrome = want
      r1 == IF isPalindrome # Absent THEN SelectSeq(r0, k1) ELSE r0
      k2(r) == keepMinLength(r, Number(minLength[1]).n)
      r2 == IF minLength # Absent THEN SelectSeq(r1, k2) ELSE r1
      k3(r) == keepMaxLength(r, Number(maxLength[1]).n)
      r3 == IF maxLength # Absent THEN SelectSeq(r2, k3) ELSE r2
      k4(r) == keepWordCount(r, Number(wordCount[1]).n)
      r4 == IF wordCount # Absent THEN SelectSeq(r3, k4) ELSE r3
      k5(r) == keepContains(r, contains[1])
      r5 == IF contains # Absent THEN SelectSeq(r4, k5) ELSE r4
  IN  IF isPalindrome # Absent /\ isPalindrome[1] # K_true /\ isPalindrome[1] # K_false
      THEN Outcome(st, ErrorJson(400, "GetStrings", "isPalindrome must be 'true' or 'false'"))
      ELSE IF minLength # Absent /\ ~Number(minLength[1]).finite
      THEN Outcome(st, ErrorJson(400, "GetStrings", "minLength must be a number"))
      ELSE IF maxLength # Absent /\ ~Number(maxLength[1]).finite
      THEN Outcome(st, ErrorJson(400, "GetStrings", "maxLength must be a number"))
      ELSE IF wordCount # Absent /\ ~Number(wordCount[1]).finite
      THEN Outcome(st, ErrorJson(400, "GetStrings", "wordCount must be a number"))
      ELSE Outcome(st, ListJson("GetStrings", r5))

templateOrderLengthFirst == <<"longer", "shorter", "palind", "single", "contains">>

\* the order in which the natural-language handler tries its templates
templateOrder == <<"palind", "single", "longer", "shorter", "contains">>

\* whether a template recognises the lowercased query
templateMatches(name, lower) ==
  CASE name = "palind"   -> includes(lower, K_palind)
    [] name = "single"   -> includes(lower, K_single_word) \/ includes(lower, K_single_dash_word)
    [] name = "longer"   -> matchDigitsAfter(lower, K_longer_than) # Absent
    [] name = "shorter"  -> matchDigitsAfter(lower, K_shorter_than) # Absent
    [] name = "contains" -> matchTokenAfter(lower, K_contains) # Absent

\* what the handler answers once a template has recognised the query
templateAnswer(name, lower, results) ==
  CASE name = "palind" ->
         LET k(r) == r.isPalindrome IN ListJson("GetStringsQuery", SelectSeq(results, k))
    [] name = "single" ->
         LET k(r) == r.wordCount = 1 IN ListJson("GetStringsQuery", SelectSeq(results, k))
    [] name = "longer" ->
         LET n == Number(matchDigitsAfter(lower, K_longer_than)[1])
             k(r) == r.length > n.n
         IN  IF ~n.finite
             THEN ErrorJson(422, "GetStringsQuery", "Invalid number in query")
             ELSE ListJson("GetStringsQuery", SelectSeq(results, k))
    [] name = "shorter" ->
         LET n == Number(matchDigitsAfter(lower, K_shorter_than)[1])
             k(r) == r.length < n.n
         IN  IF ~n.finite
             THEN ErrorJson(422, "GetStringsQuery", "Invalid number in query")
             ELSE ListJson("GetStringsQuery", SelectSeq(results, k))
    [] name = "contains" ->
         LET substr == matchTokenAfter(lower, K_contains)[1]
             k(r) == includes(toLowerCase(r.string), toLowerCase(substr))
         IN  ListJson("GetStringsQuery", SelectSeq(results, k))

\* GET /strings/query, GET /api/v1/strings/filter-by-natural-language
GetStringsQuery(st, query) ==
  LET q == query.q IN
  IF q = Absent \/ q = Some(<<>>)
  THEN Outcome(st, ErrorJson(400, "GetStringsQuery", "Missing query parameter 'q'"))
  ELSE LET lower   == toLowerCase(q[1])
           results == mapValues(st)
           hits    == {i \in 1..Len(templateOrder) : templateMatches(templateOrder[i], lower)}
       IN  IF hits = {}
           THEN Outcome(st, ErrorJson(400, "GetStringsQuery", "Could not interpret query"))
           ELSE LET first == CHOOSE i \in hits : \A j \in hits : i <= j
                IN  Outcome(st, templateAnswer(templateOrder[first], lower, results))

\* DELETE /strings/:value, DELETE /api/v1/strings/:value
DeleteString(st, value) ==
  IF ~has(st, value)
  THEN Outcome(st, ErrorJson(404, "DeleteString", "String not found"))
  ELSE Outcome(mapDelete(st, value), Response(204, "DeleteString", "empty", "", <<>>))

(****************************** routing ************************************)

S_strings == <<"s","t","r","i","n","g","s">>

S_api == <<"a","p","i">>

S_v1 == <<"v","1">>

S_query == <<"q","u","e","r","y">>

S_filter_by_natural_language ==
  <<"f","i","l","t","e","r","-","b","y","-","n","a","t","u","r","a","l","-",
    "l","a","n","g","u","a","g","e">>

\* the characters of the model that encodeURIComponent escapes, each with the
\* two hexadecimal digits of its escape
Escapes == {<<" ", "2", "0">>, <<",", "2", "C">>}

RECURSIVE encodeURIComponent(_)
encodeURIComponent(s) ==
  IF Len(s) = 0 THEN <<>>
  ELSE (IF \E e \in Escapes : e[1] = s[1]
        THEN LET e == CHOOSE x \in Escapes : x[1] = s[1] IN <<"%", e[2], e[3]>>
        ELSE <<s[1]>>) \o encodeURIComponent(Tail(s))

\* decodeURIComponent, which Express applies to a path parameter
RECURSIVE decodeURIComponent(_)
decodeURIComponent(s) ==
  IF Len(s) = 0 THEN <<>>
  ELSE IF /\ s[1] = "%"
          /\ Len(s) >= 3
          /\ \E e \in Escapes : e[2] = s[2] /\ e[3] = s[3]
  THEN <<(CHOOSE e \in Escapes : e[2] = s[2] /\ e[3] = s[3])[1]>>
         \o decodeURIComponent(SubSeq(s, 4, Len(s)))
  ELSE <<s[1]>> \o decodeURIComponent(Tail(s))

Lit(seg) == [param |-> FALSE, lit |-> seg]

Param == [param |-> TRUE, lit |-> <<>>]

\* the path both files mount the collection on
Base(a) == IF a = "server" THEN <<S_strings>> ELSE <<S_api, S_v1, S_strings>>

\* the last segment of the natural-language route
NLSegment(a) == IF a = "server" THEN S_query ELSE S_filter_by_natural_language

BasePattern(a) == [i \in 1..Len(Base(a)) |-> Lit(Base(a)[i])]

Route(method, pattern, handler) ==
  [method |-> method, pattern |-> pattern, handler |-> handler]

\* the routes in the order the file registers them
Routes(a) ==
  << Route("POST",   BasePattern(a),                             "PostStrings"),
     Route("GET",    Append(BasePattern(a), Param),              "GetStringByValue"),
     Route("GET",    BasePattern(a),                             "GetStrings"),
     Route("GET",    Append(BasePattern(a), Lit(NLSegment(a))),  "GetStringsQuery"),
     Route("DELETE", Append(BasePattern(a), Param),              "DeleteString") >>

\* Express matches a route's path without regard to case or to one trailing
\* slash; a parameter takes one non-empty segment
pathMatches(pattern, path) ==
  LET p == IF Len(path) > 0 /\ Len(path[Len(path)]) = 0
           THEN SubSeq(path, 1, Len(path) - 1) ELSE path
  IN  /\ Len(p) = Len(pattern)
      /\ \A i \in 1..Len(p) :
           IF pattern[i].param THEN Len(p[i]) > 0
           ELSE toLowerCase(p[i]) = toLowerCase(pattern[i].lit)

\* the request as it is sent: method, path segments as written in the URL,
\* parsed query string, parsed JSON body
HttpRequest(method, path, query, body) ==
  [method |-> method, path |-> path, query |-> query, body |-> body]

\* the router: the first registered route of the method whose path matches
\* handles the request; none matching, Express answers 404 itself
Dispatch(a, st, req) ==
  LET routes == Routes(a)
      M == {i \in 1..Len(routes) :
              routes[i].method = req.method /\ pathMatches(routes[i].pattern, req.path)}
  IN  IF M = {}
      THEN Outcome(st, Response(404, "none", "html", "Cannot route", <<>>))
      ELSE LET r == routes[CHOOSE i \in M : \A j \in M : i <= j]
               value == decodeURIComponent(req.path[Len(r.pattern)])
           IN  CASE r.handler = "PostStrings"      -> PostStrings(st, req.body)
                 [] r.handler = "GetStringByValue" -> GetStringByValue(st, value)
                 [] r.handler = "GetStrings"       -> GetStrings(st, req.query)
                 [] r.handler = "GetStringsQuery"  -> GetStringsQuery(st, req.query)
                 [] r.handler = "DeleteString"     -> DeleteString(st, value)

(*************************** request inputs ********************************)

Apps == {"server", "v1"}

V_empty == <<>>

V_aba == <<"a","b","a">>

V_Aba == <<"A","b","a">>

\* "No,  on": two words, a palindrome once sanitized
V_noon == <<"N","o",","," "," ","o","n">>

\* the strings the clients create, fetch and delete: the empty string, the
\* name of the natural-language route, strings of lengths 3, 5 and 7
Values(a) ==
  IF a = "server"
  THEN {V_empty, V_aba, V_Aba, S_query, V_noon}
  ELSE {V_empty, V_aba, S_query, V_noon, S_filter_by_natural_language}

Bodies(a) == {NoBody, OtherBody} \cup {StringBody(v) : v \in Values(a)}

T_yes == <<"y","e","s">>

T_abc == <<"a","b","c">>

T_blank == <<" "," ">>

T_4 == <<"4">>

T_6 == <<"6">>

T_1 == <<"1">>

T_a == <<"a">>

ListQuery(p, lo, hi, wc, sub) ==
  [ isPalindrome |-> p, minLength |-> lo, maxLength |-> hi,
    wordCount |-> wc, contains |-> sub, q |-> Absent ]

\* every combination of well-formed filters
ValidListQueries ==
  { ListQuery(p, lo, hi, wc, sub) :
      p \in {Absent, Some(K_true), Some(K_false)},
      lo \in {Absent, Some(T_4)}, hi \in {Absent, Some(T_6)},
      wc \in {Absent, Some(T_1)}, sub \in {Absent, Some(T_a)} }

\* filters with a malformed, empty or blank value
OddListQueries ==
  { ListQuery(Some(T_yes), Absent, Absent, Absent, Absent),
    ListQuery(Some(V_empty), Absent, Absent, Absent, Absent),
    ListQuery(Absent, Some(T_abc), Absent, Absent, Absent),
    ListQuery(Absent, Some(V_empty), Absent, Absent, Absent),
    ListQuery(Absent, Absent, Some(T_blank), Absent, Absent),
    ListQuery(Absent, Absent, Some(T_abc), Absent, Absent),
    ListQuery(Absent, Absent, Absent, Some(T_abc), Absent),
    ListQuery(Absent, Absent, Absent, Some(V_empty), Absent),
    ListQuery(Some(T_yes), Some(T_abc), Absent, Absent, Absent),
    ListQuery(Some(K_true), Some(T_4), Some(T_abc), Absent, Some(T_a)),
    ListQuery(Absent, Absent, Absent, Absent, Some(V_empty)) }

ListQueries == ValidListQueries \cup OddListQueries

\* the few filters the whole-service specification sends
FewListQueries ==
  { ListQuery(Absent, Absent, Absent, Absent, Absent),
    ListQuery(Absent, Some(T_4), Some(T_6), Absent, Absent),
    ListQuery(Some(T_yes), Absent, Absent, Absent, Absent),
    ListQuery(Absent, Some(V_empty), Absent, Absent, Absent) }

Q_longer_than_5 == <<"s","t","r","i","n","g","s"," ","l","o","n","g","e","r"," ","t","h","a","n"," ","5">>

Q_find_palindromes == <<"f","i","n","d"," ","p","a","l","i","n","d","r","o","m","e","s">>

Q_gibberish == <<"g","i","b","b","e","r","i","s","h"," ","x","y","z">>

Q_palind_longer_than_3 == <<"p","a","l","i","n","d","r","o","m","e","s"," ","l","o","n","g","e","r"," ","t","h","a","n"," ","3">>

NLQuery(q) == [NoQuery EXCEPT !.q = q]

\* the texts sent to the natural-language path
NLTexts ==
  { Absent, Some(V_empty), Some(Q_longer_than_5), Some(Q_find_palindromes),
    Some(Q_gibberish), Some(Q_palind_longer_than_3) }

(************************ the service, request by request ******************)

NoCall ==
  [op |-> "none", value |-> <<>>, body |-> NoBody, query |-> NoQuery, resp |-> NoResponse]

Call(op, value, body, query, resp) ==
  [op |-> op, value |-> value, body |-> body, query |-> query, resp |-> resp]

Init ==
  /\ app \in Apps
  /\ store = <<>>
  /\ last = NoCall
  /\ batch = <<>>
  /\ start = <<>>

\* one request, routed and handled to completion
Serve(op, value, http) ==
  \E out \in {Dispatch(app, store, http)} :
      /\ Len(out.store) <= MaxStore
      /\ store' = out.store
      /\ last' = Call(op, value, http.body, http.query, out.resp)
      /\ UNCHANGED <<app, batch, start>>

CreateRequest(a, b) == HttpRequest("POST", Base(a), NoQuery, b)

GetRequest(a, v) ==
  HttpRequest("GET", Append(Base(a), encodeURIComponent(v)), NoQuery, NoBody)

ListRequest(a, query) == HttpRequest("GET", Base(a), query, NoBody)

NaturalLanguageRequest(a, q) ==
  HttpRequest("GET", Append(Base(a), NLSegment(a)), NLQuery(q), NoBody)

DeleteRequest(a, v) ==
  HttpRequest("DELETE", Append(Base(a), encodeURIComponent(v)), NoQuery, NoBody)

Create(b) == Serve("create", b.str, CreateRequest(app, b))

GetByValue(v) == Serve("get", v, GetRequest(app, v))

List(query) == Serve("list", <<>>, ListRequest(app, query))

NaturalLanguage(q) == Serve("nl", <<>>, NaturalLanguageRequest(app, q))

Delete(v) == Serve("delete", v, DeleteRequest(app, v))

Next ==
  \/ \E b \in Bodies(app) : Create(b)
  \/ \E v \in Values(app) : GetByValue(v)
  \/ \E query \in FewListQueries : List(query)
  \/ \E q \in NLTexts : NaturalLanguage(q)
  \/ \E v \in Values(app) : Delete(v)

Spec == Init /\ [][Next]_vars

(******************** properties of the whole service **********************)

Keys(st) == {st[i].key : i \in 1..Len(st)}

\* the store without the entry of key k, the others in their order
Without(st, k) ==
  LET other(e) == e.key # k IN SelectSeq(st, other)

CreatedJustBefore ==
  last.op = "create" /\ last.body.kind = "string" /\ last.resp.status = 201

\* C1: a Create of the string v answers 201 exactly when v is not stored and
\* 409 exactly when it is; a Create of v right after a successful Create of v
\* answers 409; a Delete of v right after a successful Create of v answers
\* 204, and a Create of v right after that Delete answers 201; a Delete that
\* answers 204 removes v and nothing else.
C1_CreateDeleteCreate ==
  [][ /\ (last'.op = "create" /\ last'.body.kind = "string") =>
           /\ (last'.resp.status = 201) <=> ~(last'.value \in Keys(store))
           /\ (last'.resp.status = 409) <=> (last'.value \in Keys(store))
      /\ ( /\ CreatedJustBefore
           /\ last'.op = "create" /\ last'.body.kind = "string"
           /\ last'.value = last.value ) => last'.resp.status = 409
      /\ ( /\ CreatedJustBefore
           /\ last'.op = "delete"
           /\ last'.value = last.value ) => last'.resp.status = 204
      /\ ( /\ last.op = "delete" /\ last.resp.status = 204
           /\ last'.op = "create" /\ last'.body.kind = "string"
           /\ last'.value = last.value ) => last'.resp.status = 201
      /\ (last'.op = "delete" /\ last'.resp.status = 204) =>
           /\ last'.value \in Keys(store)
           /\ store' = Without(store, last'.value)
    ]_vars

\* C2: a Get by value of v right after the Create of v that answered 201 is
\* handled by the get-by-value handler and answers 200 with the very record
\* the Create returned, for every string v, the empty one included.
C2_RoundTrip ==
  [][ ( /\ CreatedJustBefore
        /\ last'.op = "get"
        /\ last'.value = last.value ) =>
          /\ last'.resp.handler = "GetStringByValue"
          /\ last'.resp.status = 200
          /\ last'.resp.shape = "record"
          /\ last'.resp.data = last.resp.data
    ]_vars

LongerThan5(r) == r.length > 5

Palindromic(r) == r.isPalindrome

\* C3: a request to the natural-language path is handled by the
\* natural-language handler: "strings longer than 5" answers 200 with the
\* stored records of length > 5, which is what the structured filter answers
\* for minLength=6; "find palindromes" answers 200 with the palindromic
\* records; "gibberish xyz" answers 400 'Could not interpret query'.
C3_NaturalLanguageRouted ==
  last.op = "nl" =>
    /\ last.query.q = Some(Q_longer_than_5) =>
         /\ last.resp.handler = "GetStringsQuery"
         /\ last.resp.status = 200
         /\ last.resp.data = SelectSeq(mapValues(store), LongerThan5)
         /\ last.resp.data =
              GetStrings(store, ListQuery(Absent, Some(T_6), Absent, Absent, Absent)).resp.data
    /\ last.query.q = Some(Q_find_palindromes) =>
         /\ last.resp.handler = "GetStringsQuery"
         /\ last.resp.status = 200
         /\ last.resp.data = SelectSeq(mapValues(store), Palindromic)
    /\ last.query.q = Some(Q_gibberish) =>
         /\ last.resp.handler = "GetStringsQuery"
         /\ last.resp.status = 400
         /\ last.resp.error = "Could not interpret query"

\* C4: a request that answers an error status leaves the store as it was, a
\* Get, List or natural-language request leaves it as it was whatever it
\* answers, and the store changes only by a Create answering 201 or a Delete
\* answering 204.
C4_NoPartialSideEffects ==
  [][ /\ last'.resp.status >= 400 => store' = store
      /\ last'.op \in {"get", "list", "nl"} => store' = store
      /\ store' # store =>
           \/ last'.op = "create" /\ last'.resp.status = 201
           \/ last'.op = "delete" /\ last'.resp.status = 204
    ]_vars

\* a Create refused with 409 while the store holds several records
C4_Witness ==
  last.op = "create" /\ last.resp.status = 409 /\ Len(store) >= 2

\* C5: the store never holds two records of one string, every record is kept
\* under the key that is its own `string` and is the analysis of that key,
\* and a record stays the same from one request to the next for as long as
\* its key is stored.
C5_StoreInvariant ==
  /\ [] ( /\ \A i, j \in 1..Len(store) : store[i].key = store[j].key => i = j
          /\ \A i \in 1..Len(store) :
               /\ store[i].key = store[i].val.string
               /\ store[i].val = analyse(store[i].key) )
  /\ [][ \A k \in Keys(store) \cap Keys(store') : get(store', k) = get(store, k) ]_vars

\* two strings that differ in case only are stored side by side
C5_Witness ==
  /\ V_aba \in Keys(store)
  /\ V_Aba \in Keys(store)
  /\ get(store, V_aba) # get(store, V_Aba)

(************************ the structured filter ****************************)

\* the strings stored while the filter is exercised: lengths 3, 3, 5 and 7
FilterValues == {V_aba, V_Aba, S_query, V_noon}

NextFilter ==
  \/ \E v \in FilterValues : Create(StringBody(v))
  \/ \E query \in ListQueries : List(query)

SpecFilter == Init /\ [][NextFilter]_vars

\* a text that denotes a number: here, a non-empty run of decimal digits
IsNumeral(s) == Len(s) > 0 /\ \A i \in 1..Len(s) : s[i] \in Digits

NumericFields == {"minLength", "maxLength", "wordCount"}

WellFormed(query) ==
  /\ query.isPalindrome \in {Absent, Some(K_true), Some(K_false)}
  /\ \A f \in NumericFields : query[f] = Absent \/ IsNumeral(query[f][1])

\* the record satisfies every predicate the query supplies
Satisfies(r, query) ==
  /\ query.isPalindrome # Absent => (r.isPalindrome <=> query.isPalindrome[1] = K_true)
  /\ query.minLength # Absent => r.length >= DecimalValue(query.minLength[1])
  /\ query.maxLength # Absent => r.length <= DecimalValue(query.maxLength[1])
  /\ query.wordCount # Absent => r.wordCount = DecimalValue(query.wordCount[1])
  /\ query.contains # Absent =>
       LET sub == query.contains[1]
       IN  \E i \in 0..(Len(r.string) - Len(sub)) :
             \A j \in 1..Len(sub) : r.string[i + j] = sub[j]

Min4Max6 == ListQuery(Absent, Some(T_4), Some(T_6), Absent, Absent)

StoredLengths == {store[i].val.length : i \in 1..Len(store)}

\* C6: a List request whose supplied predicates are all well formed answers
\* 200 with `data` the stored records, in insertion order, that satisfy every
\* supplied predicate, and `count` their number; with records of lengths 3, 5
\* and 7 stored, minLength=4&maxLength=6 returns the length-5 record alone.
C6_FilterIntersection ==
  (last.op = "list" /\ WellFormed(last.query)) =>
    LET sat(e) == Satisfies(e.val, last.query)
        kept   == SelectSeq(store, sat)
    IN  /\ last.resp.status = 200
        /\ last.resp.shape = "list"
        /\ last.resp.data = [i \in 1..Len(kept) |-> kept[i].val]
        /\ last.resp.count = Len(last.resp.data)
        /\ (Len(store) = 3 /\ StoredLengths = {3, 5, 7} /\ last.query = Min4Max6) =>
             (Len(last.resp.data) = 1 /\ last.resp.data[1].length = 5)

\* lengths 3, 5 and 7 are stored and minLength=4&maxLength=6 was asked
C6_Witness ==
  /\ last.op = "list"
  /\ last.query = Min4Max6
  /\ Len(store) = 3
  /\ StoredLengths = {3, 5, 7}
  /\ last.resp.count = 1

FieldMessage(f) ==
  CASE f = "isPalindrome" -> "isPalindrome must be 'true' or 'false'"
    [] f = "minLength"    -> "minLength must be a number"
    [] f = "maxLength"    -> "maxLength must be a number"
    [] f = "wordCount"    -> "wordCount must be a number"

\* the supplied fields whose value is malformed: an isPalindrome that is not
\* one of the two literals, a numeric field whose value denotes no number
\* (the empty and the blank value included)
MalformedFields(query) ==
  {f \in {"isPalindrome"} : query[f] # Absent /\ query[f][1] \notin {K_true, K_false}}
    \cup {f \in NumericFields : query[f] # Absent /\ ~IsNumeral(query[f][1])}

\* C7: a List request with a malformed isPalindrome, or with a minLength,
\* maxLength or wordCount that denotes no number (an empty or blank value
\* included), answers 400 with an error naming such a field and no result set.
C7_MalformedRejected ==
  (last.op = "list" /\ MalformedFields(last.query) # {}) =>
    /\ last.resp.status = 400
    /\ last.resp.shape = "error"
    /\ last.resp.data = <<>>
    /\ \E f \in MalformedFields(last.query) : last.resp.error = FieldMessage(f)

(******************* the natural-language handler, called ******************)

Q_single_word == <<"a","l","l"," ","s","i","n","g","l","e"," ","w","o","r","d"," ","s","t","r","i","n","g","s">>

Q_single_dash_palind == <<"s","i","n","g","l","e","-","w","o","r","d"," ","p","a","l","i","n","d","r","o","m","e","s">>

Q_shorter_than_4 == <<"s","h","o","r","t","e","r"," ","t","h","a","n"," ","4">>

Q_shorter_and_longer == <<"s","h","o","r","t","e","r"," ","t","h","a","n"," ","9"," ","a","n","d"," ","l","o","n","g","e","r"," ","t","h","a","n"," ","3">>

Q_contains_AB == <<"c","o","n","t","a","i","n","s"," ","\"","A","B","\"">>

Q_contains_single_word == <<"c","o","n","t","a","i","n","s"," ","a"," ","s","i","n","g","l","e"," ","w","o","r","d">>

Q_Longer_Than_4 == <<"s","t","r","i","n","g","s"," ","L","o","n","g","e","r"," ","T","h","a","n"," ","4"," ","c","h","a","r","s">>

Q_longer_than_x == <<"l","o","n","g","e","r"," ","t","h","a","n"," ","x">>

HandlerTexts ==
  NLTexts \cup
  { Some(Q_single_word), Some(Q_single_dash_palind), Some(Q_shorter_than_4),
    Some(Q_shorter_and_longer), Some(Q_contains_AB), Some(Q_contains_single_word),
    Some(Q_Longer_Than_4), Some(Q_longer_than_x) }

\* the Create handler called with a string
CallPostStrings(v) ==
  \E out \in {PostStrings(store, StringBody(v))} :
      /\ Len(out.store) <= MaxStore
      /\ store' = out.store
      /\ last' = Call("PostStrings", v, StringBody(v), NoQuery, out.resp)
      /\ UNCHANGED <<app, batch, start>>

\* the natural-language handler called with a query text
CallGetStringsQuery(q) ==
  \E out \in {GetStringsQuery(store, NLQuery(q))} :
      /\ store' = out.store
      /\ last' = Call("GetStringsQuery", <<>>, NoBody, NLQuery(q), out.resp)
      /\ UNCHANGED <<app, batch, start>>

NextHandlers ==
  \/ \E v \in FilterValues : CallPostStrings(v)
  \/ \E q \in HandlerTexts : CallGetStringsQuery(q)

SpecHandlers == Init /\ [][NextHandlers]_vars

\* C8: the natural-language handler answers 400 'missing' for an absent or
\* empty q before anything else; otherwise the first of the templates
\* palindrome, single word, longer than, shorter than, contains that
\* recognises the query decides the answer alone, and a query none
\* recognises answers 400 'Could not interpret query'.
C8_FirstTemplateWins ==
  last.op = "GetStringsQuery" =>
    LET q == last.query.q
        all == [i \in 1..Len(store) |-> store[i].val]
        answers(keep(_)) ==
          /\ last.resp.status = 200
          /\ last.resp.data = SelectSeq(all, keep)
          /\ last.resp.count = Len(last.resp.data)
    IN  IF q = Absent \/ q = Some(<<>>)
        THEN last.resp.status = 400 /\ last.resp.error = "Missing query parameter 'q'"
        ELSE LET lower   == toLowerCase(q[1])
                 palind  == includes(lower, K_palind)
                 single  == \/ includes(lower, K_single_word)
                            \/ includes(lower, K_single_dash_word)
                 longer  == matchDigitsAfter(lower, K_longer_than)
                 shorter == matchDigitsAfter(lower, K_shorter_than)
                 token   == matchTokenAfter(lower, K_contains)
                 isPal(r)     == r.isPalindrome
                 oneWord(r)   == r.wordCount = 1
                 isLonger(r)  == r.length > DecimalValue(longer[1])
                 isShorter(r) == r.length < DecimalValue(shorter[1])
                 hasToken(r)  == includes(toLowerCase(r.string), token[1])
             IN  /\ palind => answers(isPal)
                 /\ (~palind /\ single) => answers(oneWord)
                 /\ (~palind /\ ~single /\ longer # Absent) => answers(isLonger)
                 /\ (~palind /\ ~single /\ longer = Absent /\ shorter # Absent) =>
                      answers(isShorter)
                 /\ ( /\ ~palind /\ ~single /\ longer = Absent /\ shorter = Absent
                      /\ token # Absent ) => answers(hasToken)
                 /\ ( /\ ~palind /\ ~single /\ longer = Absent /\ shorter = Absent
                      /\ token = Absent ) =>
                      /\ last.resp.status = 400
                      /\ last.resp.error = "Could not interpret query"

\* "palindromes longer than 3" returned the palindrome "aba" of length 3
C8_Witness ==
  /\ last.op = "GetStringsQuery"
  /\ last.query.q = Some(Q_palind_longer_than_3)
  /\ \E i \in 1..Len(last.resp.data) : last.resp.data[i].string = V_aba

(****************************** the analyser, applied **********************)

AnalyseAlphabet == {"a", "b", "A", "1", " ", "!"}

E_panama == <<"A"," ","m","a","n"," ","a"," ","p","l","a","n"," ","a"," ","c","a","n","a","l"," ","P","a","n","a","m","a">>

E_hello == <<"h","e","l","l","o">>

E_bangs == <<"!","!","!">>

AnalyseInputs ==
  UNION {[1..n -> AnalyseAlphabet] : n \in 0..MaxLen} \cup {E_panama, E_hello, E_bangs}

InitAnalyse ==
  /\ app \in Apps
  /\ store = <<>>
  /\ batch = <<>>
  /\ start = <<>>
  /\ last \in {Call("input", s, NoBody, NoQuery, NoResponse) : s \in AnalyseInputs}

\* analyse applied to the input
Analyse ==
  /\ last.op = "input"
  /\ last' = Call("analyse", last.value, NoBody, NoQuery,
                  Response(0, "analyse", "record", "", <<analyse(last.value)>>))
  /\ UNCHANGED <<app, store, batch, start>>

SpecAnalyse == InitAnalyse /\ [][Analyse]_vars

\* the characters of s that are letters or digits, letters in lower case
RECURSIVE Projection(_)
Projection(s) ==
  IF Len(s) = 0 THEN <<>>
  ELSE IF s[1] \in Range(LowerAlpha) \cup Range(DigitChars)
       THEN <<s[1]>> \o Projection(Tail(s))
  ELSE IF \E i \in 1..26 : UpperAlpha[i] = s[1]
       THEN <<LowerAlpha[CHOOSE i \in 1..26 : UpperAlpha[i] = s[1]]>> \o Projection(Tail(s))
  ELSE Projection(Tail(s))

\* C9: analyse(s).isPalindrome is true exactly when the projection of s onto
\* [0-9a-zA-Z], lowercased, is non-empty and reads the same in both
\* directions; true for "A man a plan a canal Panama", false for "hello" and
\* for "!!!".
C9_Palindrome ==
  last.op = "analyse" =>
    LET p == Projection(last.value)
        r == last.resp.data[1]
    IN  /\ r.isPalindrome <=>
             (Len(p) > 0 /\ \A i \in 1..Len(p) : p[i] = p[Len(p) + 1 - i])
        /\ last.value = E_panama => r.isPalindrome
        /\ last.value = E_hello => ~r.isPalindrome
        /\ last.value = E_bangs => ~r.isPalindrome

\* the sentence, with capitals and spaces, was analysed as a palindrome
C9_Witness ==
  /\ last.op = "analyse"
  /\ last.value = E_panama
  /\ last.resp.data[1].isPalindrome

(************************ requests in flight together **********************)

\* Node runs one handler at a time and a handler never yields, so a request
\* in flight is either not yet handled or handled whole; which of the pending
\* requests is handled next is not determined.

ConcValues == {V_empty, V_aba}

Pending(op, v) == [op |-> op, value |-> v, done |-> FALSE, resp |-> NoResponse]

InFlightRequest(a, r) ==
  IF r.op = "create" THEN CreateRequest(a, StringBody(r.value))
  ELSE DeleteRequest(a, r.value)

\* a client sends a request while others are still unanswered
Submit(op, v) ==
  /\ Len(batch) < MaxInflight
  /\ batch' = Append(batch, Pending(op, v))
  /\ UNCHANGED <<app, store, last, start>>

\* the event loop runs the handler of one pending request to completion
Handle(i) ==
  /\ ~batch[i].done
  /\ \E out \in {Dispatch(app, store, InFlightRequest(app, batch[i]))} :
       /\ store' = out.store
       /\ batch' = [batch EXCEPT ![i] = [@ EXCEPT !.done = TRUE, !.resp = out.resp]]
  /\ UNCHANGED <<app, last, start>>

\* every request of the round is answered; the next round starts from here
Deliver ==
  /\ Len(batch) > 0
  /\ \A i \in 1..Len(batch) : batch[i].done
  /\ batch' = <<>>
  /\ start' = store
  /\ UNCHANGED <<app, store, last>>

NextConc ==
  \/ \E op \in {"create", "delete"}, v \in ConcValues : Submit(op, v)
  \/ \E i \in 1..Len(batch) : Handle(i)
  \/ Deliver

SpecConc == Init /\ [][NextConc]_vars

\* the requests of the round handled one after the other in the given order
RECURSIVE RunInOrder(_, _, _)
RunInOrder(st, order, resps) ==
  IF Len(order) = 0 THEN [store |-> st, resps |-> resps]
  ELSE LET i   == Head(order)
           out == Dispatch(app, st, InFlightRequest(app, batch[i]))
       IN  RunInOrder(out.store, Tail(order), [resps EXCEPT ![i] = out.resp])

AllAnswered == Len(batch) > 0 /\ \A i \in 1..Len(batch) : batch[i].done

Orders ==
  {o \in [1..Len(batch) -> 1..Len(batch)] : \A i, j \in 1..Len(batch) : o[i] = o[j] => i = j}

\* the answers and the store are those of some sequential order of the round
Serializable ==
  AllAnswered =>
    \E o \in Orders :
      RunInOrder(start, o, [i \in 1..Len(batch) |-> NoResponse])
        = [store |-> store, resps |-> [i \in 1..Len(batch) |-> batch[i].resp]]

TwoOf(op) ==
  /\ Len(batch) = 2
  /\ batch[1].op = op /\ batch[2].op = op
  /\ batch[1].value = batch[2].value

\* C10: once every request of a round is answered, the answers and the store
\* are those of some sequential order of its requests; two Creates of one
\* value that was not stored are answered 201 and 409, and two Deletes of one
\* stored value are answered 204 and 404.
C10_Atomic ==
  /\ Serializable
  /\ (AllAnswered /\ TwoOf("create") /\ batch[1].value \notin Keys(start)) =>
       {batch[1].resp.status, batch[2].resp.status} = {201, 409}
  /\ (AllAnswered /\ TwoOf("delete") /\ batch[1].value \in Keys(start)) =>
       {batch[1].resp.status, batch[2].resp.status} = {204, 404}

====
